---- MODULE Spec2Model ----
(***************************************************************************)
(* Entry-M_DHT: temperature / humidity monitor driving an Entry-M display  *)
(* over a serial link.  The source file holds two sketches one after the   *)
(* other: sketch 1 (lines 23-243) renders to the virtual layer and flips   *)
(* it; sketch 2 (lines 245-414) draws and shows directly.                  *)
(*                                                                         *)
(* Time passes only inside delay(); bytes reach the receive buffer only    *)
(* while time passes (the link delivers at most BytesPerTick bytes per     *)
(* time unit, and the buffer keeps at most RxCap unread bytes).            *)
(*                                                                         *)
(* The far end of the link is one of three devices: "noisy" sends any      *)
(* bytes at any time, "prompt" acknowledges every frame before the delay   *)
(* that follows it ends, and the "responder" answers every frame with one  *)
(* byte after a delay of its choosing.                                     *)
(***************************************************************************)
EXTENDS Integers, Sequences, FiniteSets, TLC

VARIABLES
    variant,        \* which sketch runs: 1 (lines 23-243) or 2 (lines 245-414)
    device,         \* what the far end of the link does: "noisy", "prompt"
                    \* or "responder"
    pc,             \* position of setup()/loop(), or the harness of a sub-specification
    slept,          \* argument of the delay() loop() made before its readings
    h, t,           \* loop's locals: the last humidity / temperature reading
    dpc,            \* position inside the display operation in progress
    deg,            \* argument of the display operation in progress
    showTempXXX,    \* static XXX of ShowTemperature
    updTempXXX,     \* static XXX of UpdateTemperature
    showHumXXX,     \* static XXX of ShowHumidity
    updHumXXX,      \* static XXX of UpdateHumidity
    link,           \* the last writes made to the serial link, oldest first
    rx,             \* serial receive buffer (unread bytes, oldest first)
    wire,           \* answers the responder owes for the frames it received
                    \* and that have not reached rx yet, oldest first
    wpc,            \* position inside WaitResponse
    minWaitTime,    \* WaitResponse parameter
    maxWaitTime,    \* WaitResponse parameter
    ret,            \* WaitResponse local
    timer,          \* WaitResponse local
    elapsed,        \* time units spent in delay() since WaitResponse was entered
    sawByte,        \* a byte was available at some poll of this WaitResponse call
    csData, csCount, csSigned,   \* CheckSum called on its own: the arguments
    csOut,          \* and the result, once returned
    literal         \* a value formatted on its own: the decimal it was
                    \* written as, in hundredths

vars == <<variant, device, pc, slept, h, t, dpc, deg, showTempXXX, updTempXXX,
          showHumXXX, updHumXXX, link, rx, wire, wpc, minWaitTime, maxWaitTime,
          ret, timer, elapsed, sawByte, csData, csCount, csSigned, csOut,
          literal>>

progVars == <<variant, device, pc, slept, h, t>>
drvVars  == <<dpc, deg, showTempXXX, updTempXXX, showHumXXX, updHumXXX, link>>
waitVars == <<wpc, minWaitTime, maxWaitTime, ret, timer, elapsed, sawByte>>
csVars   == <<csData, csCount, csSigned, csOut, literal>>

----------------------------------------------------------------------------
(* Program constants *)

ACK == 6
NAK == 21
TIMEOUT == 0
MIN_READ_PERIOD == 2000
SETUP_DELAY == 2000
CMD_MIN_WAIT == 100
CMD_MAX_WAIT == 500

(* Bounds of the model *)

RxCap == 2              \* unread bytes the receive buffer keeps
BytesPerTick == 1       \* bytes the link can deliver in one time unit
MaxMinWait == 2         \* WaitResponse on its own: minWaitTime in 0..MaxMinWait
MaxMaxWait == 3         \* WaitResponse on its own: maxWaitTime in 0..MaxMaxWait
MaxForeverTicks == 3    \* polling ticks explored when maxWaitTime = 0
MaxLen == 3             \* CheckSum on its own: buffers of up to MaxLen bytes
MaxPending == 2         \* answers the responder may owe at one time
MaxTenths == 1004       \* the digits on their own: values 0.0 .. MaxTenths / 10

\* Byte values the device or line noise may deliver.
RxBytes == {0, ACK, NAK, 65}

\* Byte values of the buffers CheckSum is called on by itself.
CsBytes == {0, 1, 127, 128, 255}

----------------------------------------------------------------------------
(* Helpers *)

Min(a, b) == IF a < b THEN a ELSE b

SeqsUpTo(S, n) == UNION {[1..k -> S] : k \in 0..n}

RECURSIVE Pow2(_)
Pow2(n) == IF n = 0 THEN 1 ELSE 2 * Pow2(n - 1)

\* C integer division and remainder: truncation toward zero, the remainder
\* takes the sign of the dividend.
CDiv(a, b) == IF a >= 0 THEN a \div b ELSE -((-a) \div b)
CMod(a, b) == a - b * CDiv(a, b)

\* Conversion of an int to unsigned char.
ToByte(n) == n % 256

\* The receive buffer after d time units.  From a "noisy" far end up to
\* d * BytesPerTick bytes of any value arrive, and bytes that find the buffer
\* full are lost.  A "prompt" device sends nothing of its own and has
\* acknowledged the frame it received by the time a delay ends.
ArriveDuring(buf, d) ==
    IF d = 0 THEN {buf}
    ELSE IF device = "prompt" THEN {IF buf = <<>> THEN <<ACK>> ELSE buf}
    ELSE {buf \o s :
            s \in SeqsUpTo(RxBytes, Min(d * BytesPerTick, RxCap - Len(buf)))}

\* The link during d time units.  The responder delivers, in order, any
\* number of the answers it owes that the line rate and the room left in
\* the buffer allow; the rest stay owed.
LinkDelay(buf, d) ==
    IF device = "responder"
    THEN \E k \in 0..Min(Min(Len(wire), d * BytesPerTick), RxCap - Len(buf)) :
            /\ rx' = buf \o SubSeq(wire, 1, k)
            /\ wire' = SubSeq(wire, k + 1, Len(wire))
    ELSE /\ rx' \in ArriveDuring(buf, d)
         /\ wire' = wire

----------------------------------------------------------------------------
(* float: a reading is not-a-number or the binary32 value (-1)^neg * m * 2^e *)

NaN == [nan |-> TRUE, neg |-> FALSE, m |-> 0, e |-> 0]
Float(n, mant, ex) == [nan |-> FALSE, neg |-> n, m |-> mant, e |-> ex]

isnan(x) == x.nan

\* Variant: the product rounded toward zero.
FloatMul10_Truncate(x) ==
    IF x.m = 0 THEN x
    ELSE LET p == x.m * 10
             k == IF p >= Pow2(27) THEN 4 ELSE 3
         IN  Float(x.neg, p \div Pow2(k), x.e + k)

\* deg * 10 (lines 114, 132): the binary32 product, rounded to nearest, ties
\* to even.  m * 10 lies in [2^26, 2^28) for a normalised m.
FloatMul10(x) ==
    IF x.m = 0 THEN x
    ELSE LET p    == x.m * 10
             k    == IF p >= Pow2(27) THEN 4 ELSE 3
             q    == p \div Pow2(k)
             r    == p % Pow2(k)
             half == Pow2(k - 1)
             up   == r > half \/ (r = half /\ q % 2 = 1)
             q1   == IF up THEN q + 1 ELSE q
         IN  IF q1 = Pow2(24) THEN Float(x.neg, Pow2(23), x.e + k + 1)
             ELSE Float(x.neg, q1, x.e + k)

\* Variant: conversion to the nearest integer.
FloatToInt_Round(x) ==
    LET mag == IF x.e >= 0 THEN x.m * Pow2(x.e)
               ELSE IF -x.e > 30 THEN 0
               ELSE (x.m + Pow2(-x.e - 1)) \div Pow2(-x.e)
    IN  IF x.neg THEN -mag ELSE mag

\* (int)x (lines 114-116): truncation toward zero.
FloatToInt(x) ==
    LET mag == IF x.e >= 0 THEN x.m * Pow2(x.e)
               ELSE IF -x.e > 30 THEN 0
               ELSE x.m \div Pow2(-x.e)
    IN  IF x.neg THEN -mag ELSE mag

----------------------------------------------------------------------------
(* CheckSum (lines 90-96) *)

\* data[i] read through const char*: char is signed on AVR, unsigned on
\* other cores.
CharValue(b, sgn) == IF sgn /\ b >= 128 THEN b - 256 ELSE b

\* The loop of lines 92-94 from index i (0-based) with BCC the sum so far;
\* BCC is a byte, so every addition is truncated to 8 bits.
RECURSIVE CheckSumLoop(_, _, _, _, _)
CheckSumLoop(data, count, sgn, i, BCC) ==
    IF i < count
    THEN CheckSumLoop(data, count, sgn, i + 1,
                      ToByte(BCC + CharValue(data[i + 1], sgn)))
    ELSE BCC

\* Variants: the loop running one byte too far, and a sum that saturates.
CheckSum_OneTooFar(data, count, sgn) ==
    CheckSumLoop(data, Min(count + 1, Len(data)), sgn, 0, 0)

CheckSum(data, count, sgn) == CheckSumLoop(data, count, sgn, 0, 0)

----------------------------------------------------------------------------
(* Command frames: the static templates, as initialised *)

\* Line 102.
UpdateScreenXXX ==
    <<1, 20, 2, 4, 49, 3, 0, 0, 0, 0, 0, 255, 255, 255, 255, 255, 255, 10,
      83, 13>>

\* Line 113 (sketch 1), line 323 (sketch 2).
ShowTemperatureXXX(v) ==
    IF v = 1 THEN
    <<1, 33, 2, 4, 49, 19, 0, 0, 135, 0, 80, 255, 255, 255, 0, 0, 0, 84,
      101, 109, 112, 58, 32, 48, 48, 46, 48, 32, 99, 32, 10, 155, 13>>
    ELSE
    <<1, 33, 2, 4, 49, 19, 0, 0, 140, 0, 80, 255, 255, 255, 0, 0, 0, 84,
      101, 109, 112, 58, 32, 48, 48, 46, 48, 32, 99, 32, 10, 160, 13>>

\* Variant: the template of UpdateTemperature at another x coordinate.
UpdateTemperatureXXX_Moved ==
    <<1, 33, 2, 4, 49, 16, 0, 0, 140, 0, 80, 255, 255, 255, 0, 0, 0, 84,
      101, 109, 112, 58, 32, 48, 48, 46, 48, 32, 99, 32, 10, 157, 13>>

\* Line 131.
UpdateTemperatureXXX ==
    <<1, 33, 2, 4, 49, 16, 0, 0, 135, 0, 80, 255, 255, 255, 0, 0, 0, 84,
      101, 109, 112, 58, 32, 48, 48, 46, 48, 32, 99, 32, 10, 152, 13>>

\* Line 147 (sketch 1), line 336 (sketch 2).
ClearTemperatureXXX(v) ==
    IF v = 1 THEN
    <<1, 16, 2, 4, 65, 0, 135, 0, 80, 1, 219, 1, 16, 10, 38, 13>>
    ELSE
    <<1, 16, 2, 4, 65, 0, 140, 0, 80, 1, 114, 0, 120, 10, 41, 13>>

\* Line 158 (sketch 1), line 343 (sketch 2).
ShowHumidityXXX(v) ==
    IF v = 1 THEN
    <<1, 30, 2, 4, 49, 19, 0, 0, 154, 0, 140, 255, 255, 255, 0, 0, 0, 72,
      117, 109, 58, 32, 48, 48, 32, 37, 32, 10, 223, 13>>
    ELSE
    <<1, 30, 2, 4, 49, 19, 0, 0, 159, 0, 140, 255, 255, 255, 0, 0, 0, 72,
      117, 109, 58, 32, 48, 48, 32, 37, 32, 10, 228, 13>>

\* Line 175.
UpdateHumidityXXX ==
    <<1, 30, 2, 4, 49, 16, 0, 0, 154, 0, 140, 255, 255, 255, 0, 0, 0, 72,
      117, 109, 58, 32, 48, 48, 32, 37, 32, 10, 220, 13>>

\* Line 187 (sketch 1), line 355 (sketch 2).
ClearHumidityXXX(v) ==
    IF v = 1 THEN
    <<1, 16, 2, 4, 65, 0, 154, 0, 140, 1, 219, 0, 180, 10, 24, 13>>
    ELSE
    <<1, 16, 2, 4, 65, 0, 159, 0, 140, 1, 94, 0, 180, 10, 160, 13>>

\* The text of line 217 followed by println's CR LF.
FailedText ==
    <<70, 97, 105, 108, 101, 100, 32, 116, 111, 32, 114, 101, 97, 100, 32,
      102, 114, 111, 109, 32, 68, 72, 84, 32, 115, 101, 110, 115, 111, 114,
      33, 13, 10>>

\* Variant: the digits patched and the checksum left as it was.
PatchTemperature_StaleSum(XXX, d, sgn) ==
    LET tenths == ToByte(CMod(FloatToInt(FloatMul10(d)), 10) + 48)
        ones   == ToByte(CMod(FloatToInt(d), 10) + 48)
        tens   == ToByte(CMod(CDiv(FloatToInt(d), 10), 10) + 48)
    IN  [XXX EXCEPT ![27] = tenths, ![25] = ones,
                    ![24] = IF tens = 48 THEN 32 ELSE tens]

\* Variant: a tens digit of zero leaves the byte as the call before set it.
PatchTemperature_StaleTens(XXX, d, sgn) ==
    LET tenths == ToByte(CMod(FloatToInt(FloatMul10(d)), 10) + 48)
        ones   == ToByte(CMod(FloatToInt(d), 10) + 48)
        tens   == ToByte(CMod(CDiv(FloatToInt(d), 10), 10) + 48)
        a      == [XXX EXCEPT ![27] = tenths, ![25] = ones,
                              ![24] = IF tens = 48 THEN XXX[24] ELSE tens]
    IN  [a EXCEPT ![32] = CheckSum(a, Len(a) - 2, sgn)]

\* Lines 132-138: the digits patched into the temperature frame, then the
\* checksum.  XXX[k] of the source is XXX[k + 1] here.
PatchTemperature(XXX, d, sgn) ==
    LET tenths == ToByte(CMod(FloatToInt(FloatMul10(d)), 10) + 48)
        ones   == ToByte(CMod(FloatToInt(d), 10) + 48)
        tens   == ToByte(CMod(CDiv(FloatToInt(d), 10), 10) + 48)
        a      == [XXX EXCEPT ![27] = tenths, ![25] = ones,
                              ![24] = IF tens = 48 THEN 32 ELSE tens]
    IN  [a EXCEPT ![32] = CheckSum(a, Len(a) - 2, sgn)]

\* Lines 176-181: the digits patched into the humidity frame, then the
\* checksum.
PatchHumidity(XXX, hum, sgn) ==
    LET ones == ToByte(CMod(FloatToInt(hum), 10) + 48)
        tens == ToByte(CMod(CDiv(FloatToInt(hum), 10), 10) + 48)
        a    == [XXX EXCEPT ![24] = ones,
                            ![23] = IF tens = 48 THEN 32 ELSE tens]
    IN  [a EXCEPT ![29] = CheckSum(a, Len(a) - 2, sgn)]

----------------------------------------------------------------------------
(* WaitResponse (lines 47-66) *)

\* Variants of the loop condition: one tick short, one tick long, and
\* without the "wait forever" case.
LoopCond_Early(r, tm, mx) == r = 0 /\ (tm + 1 < mx \/ mx = 0)
LoopCond_Inclusive(r, tm, mx) == r = 0 /\ (tm <= mx \/ mx = 0)
LoopCond_NoForever(r, tm, mx) == r = 0 /\ tm < mx

\* The while condition of line 54.
LoopCond(r, tm, mx) == r = 0 /\ (tm < mx \/ mx = 0)

\* The test of line 57.
IsResponse(b) == b = ACK \/ b = NAK

\* Variant: the delay before the first poll left out.
PreDelay_None(mn) == 0

\* Lines 51-52: the time spent before the first poll.
PreDelay(mn) == IF mn > 0 THEN mn ELSE 0

\* Variant: the else of line 60 left out, every iteration delays.
PollDelay_Always(avail) == 1

\* Lines 55-63: an iteration delays one time unit only when no byte is
\* available.
PollDelay(avail) == IF avail THEN 0 ELSE 1

\* WaitResponse is not being called.
WaitIdle ==
    /\ wpc = "idle" /\ minWaitTime = 0 /\ maxWaitTime = 0
    /\ ret = 0 /\ timer = 0 /\ elapsed = 0 /\ sawByte = FALSE

\* The call itself: parameters bound, locals initialised (lines 47-49).
WaitResponseEnter(mn, mx) ==
    /\ wpc' = "entry"
    /\ minWaitTime' = mn
    /\ maxWaitTime' = mx
    /\ ret' = 0
    /\ timer' = 0
    /\ elapsed' = 0
    /\ sawByte' = FALSE

\* The caller has taken the value returned: parameters and locals are gone.
WaitResponseLeave ==
    /\ wpc' = "idle"
    /\ minWaitTime' = 0
    /\ maxWaitTime' = 0
    /\ ret' = 0
    /\ timer' = 0
    /\ elapsed' = 0
    /\ sawByte' = FALSE

\* Lines 51-54: the mandatory delay, then the first evaluation of the loop
\* condition.
WaitResponseDelay ==
    /\ wpc = "entry"
    /\ elapsed' = elapsed + PreDelay(minWaitTime)
    /\ LinkDelay(rx, PreDelay(minWaitTime))
    /\ wpc' = IF LoopCond(ret, timer, maxWaitTime) THEN "loop" ELSE "done"
    /\ UNCHANGED <<minWaitTime, maxWaitTime, ret, timer, sawByte>>
    /\ UNCHANGED <<progVars, drvVars, csVars>>

\* Lines 54-65: one iteration of the loop, up to the next evaluation of the
\* loop condition; "done" is the return of line 65 with the value of ret.
\* timer is an unsigned long; it cannot wrap while timer < maxWaitTime, and
\* with maxWaitTime = 0 its value is never used.
WaitResponsePoll ==
    /\ wpc = "loop"
    /\ rx # <<>> \/ maxWaitTime # 0 \/ timer < MaxForeverTicks
    /\ LET avail == rx # <<>>
           r     == IF avail THEN Head(rx) ELSE ret
           rest  == IF avail THEN Tail(rx) ELSE rx
           d     == PollDelay(avail)
       IN  /\ ret' = r
           /\ sawByte' = (sawByte \/ avail)
           /\ timer' = timer + d
           /\ elapsed' = elapsed + d
           /\ LinkDelay(rest, d)
           /\ wpc' = IF avail /\ IsResponse(r) THEN "done"
                     ELSE IF LoopCond(r, timer + d, maxWaitTime) THEN "loop"
                     ELSE "done"
    /\ UNCHANGED <<minWaitTime, maxWaitTime>>
    /\ UNCHANGED <<progVars, drvVars, csVars>>

----------------------------------------------------------------------------
(* The display operations (lines 101-190, 320-358) *)

\* A local or parameter that holds no live value.
Unset == Float(FALSE, 0, 0)

\* No display operation is in progress.
Idle == [op |-> "none", at |-> "idle"]

\* CheckSum is not being called on its own.
IdleCheckSum ==
    /\ csData = <<>> /\ csCount = 0 /\ csSigned = FALSE /\ csOut = <<>>
    /\ literal = 0

\* The static buffers as the program starts.  Sketch 2 has no
\* UpdateTemperature and no UpdateHumidity.
StaticInit ==
    /\ showTempXXX = ShowTemperatureXXX(variant)
    /\ showHumXXX = ShowHumidityXXX(variant)
    /\ updTempXXX = IF variant = 1 THEN UpdateTemperatureXXX ELSE <<>>
    /\ updHumXXX = IF variant = 1 THEN UpdateHumidityXXX ELSE <<>>

\* Serial.write / Serial.println: link keeps the last two writes.
PushLink(l, w) == IF l = <<>> THEN <<w>> ELSE <<l[Len(l)], w>>

\* What the far end does with a frame: the responder owes one answer, ACK
\* or NAK, for every frame it receives.
FrameReceived ==
    IF device = "responder"
    THEN /\ Len(wire) < MaxPending
         /\ \E b \in {ACK, NAK} : wire' = Append(wire, b)
    ELSE wire' = wire

\* Variant: the frame is written and the operation goes on without waiting.
SendCommand_NoWait(op, data) ==
    /\ link' = PushLink(link, [op |-> op, bytes |-> data])
    /\ wpc' = "done"
    /\ minWaitTime' = CMD_MIN_WAIT /\ maxWaitTime' = CMD_MAX_WAIT
    /\ ret' = 0 /\ timer' = 0 /\ elapsed' = 0 /\ sawByte' = FALSE
    /\ FrameReceived
    /\ UNCHANGED rx

\* WriteCommand(XXX, sizeof(XXX)); WaitResponse(100, 500); up to the entry
\* of WaitResponse.  Serial.write queues the bytes and takes no time.
SendCommand(op, data) ==
    /\ link' = PushLink(link, [op |-> op, bytes |-> data])
    /\ WaitResponseEnter(CMD_MIN_WAIT, CMD_MAX_WAIT)
    /\ FrameReceived
    /\ UNCHANGED rx

\* Variant: the temperature operations clearing the humidity region.
CallTemperature_WrongClear(op, d) ==
    /\ dpc = Idle
    /\ dpc' = [op |-> op, at |-> "clear"]
    /\ deg' = d
    /\ SendCommand("ClearHumidity", ClearHumidityXXX(variant))
    /\ UNCHANGED <<showTempXXX, updTempXXX, showHumXXX, updHumXXX>>

\* ShowTemperature(d) / UpdateTemperature(d) called: ClearTemperature()
\* writes its frame (lines 111, 129, 146-149).
CallTemperature(op, d) ==
    /\ dpc = Idle
    /\ dpc' = [op |-> op, at |-> "clear"]
    /\ deg' = d
    /\ SendCommand("ClearTemperature", ClearTemperatureXXX(variant))
    /\ UNCHANGED <<showTempXXX, updTempXXX, showHumXXX, updHumXXX>>

\* ShowHumidity(d) / UpdateHumidity(d) called: ClearHumidity() writes its
\* frame (lines 156, 173, 186-190).
CallHumidity(op, d) ==
    /\ dpc = Idle
    /\ dpc' = [op |-> op, at |-> "clear"]
    /\ deg' = d
    /\ SendCommand("ClearHumidity", ClearHumidityXXX(variant))
    /\ UNCHANGED <<showTempXXX, updTempXXX, showHumXXX, updHumXXX>>

\* UpdateScreen() called (lines 101-104).
CallUpdateScreen ==
    /\ dpc = Idle
    /\ dpc' = [op |-> "UpdateScreen", at |-> "draw"]
    /\ SendCommand("UpdateScreen", UpdateScreenXXX)
    /\ UNCHANGED <<deg, showTempXXX, updTempXXX, showHumXXX, updHumXXX>>

\* Lines 113-122 (323-332): ClearTemperature has returned; patch, write.
ShowTemperatureDraw ==
    /\ dpc = [op |-> "ShowTemperature", at |-> "clear"]
    /\ wpc = "done"
    /\ \E sgn \in BOOLEAN :
          LET XXX == PatchTemperature(showTempXXX, deg, sgn)
          IN  /\ showTempXXX' = XXX
              /\ SendCommand("ShowTemperature", XXX)
    /\ dpc' = [dpc EXCEPT !.at = "draw"]
    /\ UNCHANGED <<deg, updTempXXX, showHumXXX, updHumXXX, progVars, csVars>>

\* Lines 131-140: ClearTemperature has returned; patch, write.
UpdateTemperatureDraw ==
    /\ dpc = [op |-> "UpdateTemperature", at |-> "clear"]
    /\ wpc = "done"
    /\ \E sgn \in BOOLEAN :
          LET XXX == PatchTemperature(updTempXXX, deg, sgn)
          IN  /\ updTempXXX' = XXX
              /\ SendCommand("UpdateTemperature", XXX)
    /\ dpc' = [dpc EXCEPT !.at = "draw"]
    /\ UNCHANGED <<deg, showTempXXX, showHumXXX, updHumXXX, progVars, csVars>>

\* Lines 158-166 (343-351): ClearHumidity has returned; patch, write.
ShowHumidityDraw ==
    /\ dpc = [op |-> "ShowHumidity", at |-> "clear"]
    /\ wpc = "done"
    /\ \E sgn \in BOOLEAN :
          LET XXX == PatchHumidity(showHumXXX, deg, sgn)
          IN  /\ showHumXXX' = XXX
              /\ SendCommand("ShowHumidity", XXX)
    /\ dpc' = [dpc EXCEPT !.at = "draw"]
    /\ UNCHANGED <<deg, showTempXXX, updTempXXX, updHumXXX, progVars, csVars>>

\* Lines 175-183: ClearHumidity has returned; patch, write.
UpdateHumidityDraw ==
    /\ dpc = [op |-> "UpdateHumidity", at |-> "clear"]
    /\ wpc = "done"
    /\ \E sgn \in BOOLEAN :
          LET XXX == PatchHumidity(updHumXXX, deg, sgn)
          IN  /\ updHumXXX' = XXX
              /\ SendCommand("UpdateHumidity", XXX)
    /\ dpc' = [dpc EXCEPT !.at = "draw"]
    /\ UNCHANGED <<deg, showTempXXX, updTempXXX, showHumXXX, progVars, csVars>>

\* Variant: a frame answered with NAK is written again.
DisplayReturn_Retry ==
    /\ dpc.at = "draw"
    /\ wpc = "done"
    /\ IF ret = NAK
       THEN /\ SendCommand(link[Len(link)].op, link[Len(link)].bytes)
            /\ UNCHANGED <<dpc, deg>>
       ELSE /\ dpc' = Idle
            /\ deg' = Unset
            /\ WaitResponseLeave
            /\ UNCHANGED <<link, rx, wire>>
    /\ UNCHANGED <<showTempXXX, updTempXXX, showHumXXX, updHumXXX>>
    /\ UNCHANGED <<progVars, csVars>>

\* The last WaitResponse of a display operation has returned; its result is
\* dropped and the operation returns (lines 104-105, 122-123, 140-141,
\* 166-167, 183-184).  The parameters and locals of both calls are gone.
DisplayReturn ==
    /\ dpc.at = "draw"
    /\ wpc = "done"
    /\ dpc' = Idle
    /\ deg' = Unset
    /\ WaitResponseLeave
    /\ UNCHANGED <<showTempXXX, updTempXXX, showHumXXX, updHumXXX, link, rx,
                   wire>>
    /\ UNCHANGED <<progVars, csVars>>

----------------------------------------------------------------------------
(* setup() and loop() (lines 192-243, 360-414) *)

\* binary32 values nearest to 7.83, 23.05, 5.0 and 45.0.
F7_83 == Float(FALSE, 16420700, -21)
F23_05 == Float(FALSE, 12084838, -19)
F5_0 == Float(FALSE, 10485760, -21)
F45_0 == Float(FALSE, 11796480, -18)

\* What dht.readTemperature() and dht.readHumidity() may return.
TempReadings == {NaN, F7_83}
HumReadings == {NaN, F45_0}

\* Lines 193-197: Serial.begin, the wait for the port, delay(2000); the
\* device's boot noise arrives meanwhile.
Setup ==
    /\ pc = "setup"
    /\ LinkDelay(rx, SETUP_DELAY)
    /\ pc' = "ClearResponse"
    /\ UNCHANGED <<variant, device, slept, h, t, drvVars, waitVars, csVars>>

\* Lines 72-73: one iteration of ClearResponse's loop.
ClearResponseRead ==
    /\ pc = "ClearResponse"
    /\ rx # <<>>
    /\ rx' = Tail(rx)
    /\ UNCHANGED <<wire, progVars, drvVars, waitVars, csVars>>

\* Variant: ClearResponse reads one byte at most (an if for the while).
ClearResponseReturn_IfForWhile ==
    /\ pc = "ClearResponse"
    /\ rx' = IF rx = <<>> THEN rx ELSE Tail(rx)
    /\ pc' = "loop"
    /\ UNCHANGED <<variant, device, slept, h, t, wire, drvVars, waitVars,
                   csVars>>

\* Lines 72-74, 200: nothing is available, ClearResponse returns; dht.begin().
ClearResponseReturn ==
    /\ pc = "ClearResponse"
    /\ rx = <<>>
    /\ pc' = "loop"
    /\ UNCHANGED <<variant, device, slept, h, t, rx, wire, drvVars, waitVars,
                   csVars>>

\* The argument of the delay at the top of loop() (lines 205, 373).
LoopDelayTime == MIN_READ_PERIOD

\* Lines 205-211 (373-379): delay(MIN_READ_PERIOD), then the two readings.
LoopRead ==
    /\ pc = "loop"
    /\ slept' = LoopDelayTime
    /\ LinkDelay(rx, LoopDelayTime)
    /\ h' \in HumReadings
    /\ t' \in TempReadings
    /\ pc' = "check"
    /\ UNCHANGED <<variant, device, drvVars, waitVars, csVars>>

\* Variant: the message is printed and the return is missing.
LoopCheck_NoReturn ==
    /\ pc = "check"
    /\ IF isnan(h) \/ isnan(t)
       THEN link' = PushLink(link, [op |-> "println", bytes |-> FailedText])
       ELSE link' = link
    /\ pc' = "temperature"
    /\ UNCHANGED <<variant, device, slept, h, t, dpc, deg, rx, wire>>
    /\ UNCHANGED <<showTempXXX, updTempXXX, showHumXXX, updHumXXX>>
    /\ UNCHANGED <<waitVars, csVars>>

\* Lines 216-219 (384-387): the early return, with the message, when either
\* reading is not a number.
LoopCheck ==
    /\ pc = "check"
    /\ IF isnan(h) \/ isnan(t)
       THEN /\ link' = PushLink(link, [op |-> "println", bytes |-> FailedText])
            /\ pc' = "loop"
            /\ h' = Unset /\ t' = Unset /\ slept' = 0
       ELSE /\ pc' = "temperature"
            /\ UNCHANGED <<link, h, t, slept>>
    /\ UNCHANGED <<variant, device, dpc, deg, rx, wire, waitVars, csVars>>
    /\ UNCHANGED <<showTempXXX, updTempXXX, showHumXXX, updHumXXX>>

\* Line 240: UpdateTemperature(t); line 408: ShowTemperature(t).
LoopTemperature ==
    /\ pc = "temperature"
    /\ CallTemperature(IF variant = 1 THEN "UpdateTemperature"
                       ELSE "ShowTemperature", t)
    /\ pc' = "humidity"
    /\ UNCHANGED <<variant, device, slept, h, t, csVars>>

\* Line 241: UpdateHumidity(h); line 409: ShowHumidity(h).
LoopHumidity ==
    /\ pc = "humidity"
    /\ CallHumidity(IF variant = 1 THEN "UpdateHumidity"
                    ELSE "ShowHumidity", h)
    /\ pc' = IF variant = 1 THEN "screen" ELSE "drain"
    /\ UNCHANGED <<variant, device, slept, h, t, csVars>>

\* Line 242: UpdateScreen().
LoopUpdateScreen ==
    /\ pc = "screen"
    /\ CallUpdateScreen
    /\ pc' = "end"
    /\ UNCHANGED <<variant, device, slept, h, t, csVars>>

\* Line 243: UpdateScreen has returned and loop() returns.
LoopReturn ==
    /\ pc = "end"
    /\ dpc = Idle
    /\ pc' = "loop"
    /\ h' = Unset /\ t' = Unset /\ slept' = 0
    /\ UNCHANGED <<variant, device, rx, wire, drvVars, waitVars, csVars>>

\* Lines 412-413: one iteration of the loop that empties the read buffer.
LoopDrainRead ==
    /\ pc = "drain"
    /\ dpc = Idle
    /\ rx # <<>>
    /\ rx' = Tail(rx)
    /\ UNCHANGED <<wire, progVars, drvVars, waitVars, csVars>>

\* Lines 412-414: nothing is available and loop() returns.
LoopDrainReturn ==
    /\ pc = "drain"
    /\ dpc = Idle
    /\ rx = <<>>
    /\ pc' = "loop"
    /\ h' = Unset /\ t' = Unset /\ slept' = 0
    /\ UNCHANGED <<variant, device, rx, wire, drvVars, waitVars, csVars>>

Init ==
    /\ variant \in {1, 2}
    /\ device = "noisy"
    /\ pc = "setup"
    /\ slept = 0
    /\ h = Unset /\ t = Unset /\ deg = Unset
    /\ dpc = Idle
    /\ StaticInit
    /\ link = <<>>
    /\ rx = <<>> /\ wire = <<>>
    /\ WaitIdle
    /\ IdleCheckSum

Next ==
    \/ Setup \/ ClearResponseRead \/ ClearResponseReturn
    \/ LoopRead \/ LoopCheck \/ LoopTemperature \/ LoopHumidity \/ LoopUpdateScreen
    \/ LoopReturn \/ LoopDrainRead \/ LoopDrainReturn
    \/ ShowTemperatureDraw \/ UpdateTemperatureDraw
    \/ ShowHumidityDraw \/ UpdateHumidityDraw
    \/ DisplayReturn
    \/ WaitResponseDelay \/ WaitResponsePoll

Spec == Init /\ [][Next]_vars

----------------------------------------------------------------------------
(* The program against a responder: a device that sends nothing of its own  *)
(* and answers every frame it receives with one byte, ACK or NAK, after a    *)
(* delay of its choosing; answers travel in the order of their frames        *)

\* A byte may sit in the receive buffer when the program starts.
ReplyInit ==
    /\ variant \in {1, 2}
    /\ device = "responder"
    /\ pc = "setup"
    /\ slept = 0
    /\ h = Unset /\ t = Unset /\ deg = Unset
    /\ dpc = Idle
    /\ StaticInit
    /\ link = <<>>
    /\ rx \in SeqsUpTo({65}, 1)
    /\ wire = <<>>
    /\ WaitIdle
    /\ IdleCheckSum

ReplySpec == ReplyInit /\ [][Next]_vars

----------------------------------------------------------------------------
(* The display operations on their own: called in any order with any value, *)
(* against a device that acknowledges every frame                           *)

\* binary32 values nearest to -3.5 and 100.0.
FNeg3_5 == Float(TRUE, 14680064, -22)
F100_0 == Float(FALSE, 13107200, -17)

DriverValues == {F7_83, F23_05, FNeg3_5, F100_0}

DriverCallTemperature ==
    /\ pc = "driver"
    /\ \E d \in DriverValues :
       \E op \in IF variant = 1 THEN {"ShowTemperature", "UpdateTemperature"}
                 ELSE {"ShowTemperature"} :
          CallTemperature(op, d)
    /\ UNCHANGED <<progVars, csVars>>

DriverCallHumidity ==
    /\ pc = "driver"
    /\ \E d \in DriverValues :
       \E op \in IF variant = 1 THEN {"ShowHumidity", "UpdateHumidity"}
                 ELSE {"ShowHumidity"} :
          CallHumidity(op, d)
    /\ UNCHANGED <<progVars, csVars>>

DriverCallUpdateScreen ==
    /\ pc = "driver"
    /\ variant = 1
    /\ CallUpdateScreen
    /\ UNCHANGED <<progVars, csVars>>

DriverInit ==
    /\ variant \in {1, 2}
    /\ device = "prompt"
    /\ pc = "driver"
    /\ slept = 0
    /\ h = Unset /\ t = Unset /\ deg = Unset
    /\ dpc = Idle
    /\ StaticInit
    /\ link = <<>>
    /\ rx = <<>> /\ wire = <<>>
    /\ WaitIdle
    /\ IdleCheckSum

DriverNext ==
    \/ DriverCallTemperature \/ DriverCallHumidity \/ DriverCallUpdateScreen
    \/ ShowTemperatureDraw \/ UpdateTemperatureDraw
    \/ ShowHumidityDraw \/ UpdateHumidityDraw
    \/ DisplayReturn
    \/ WaitResponseDelay \/ WaitResponsePoll

DriverSpec == DriverInit /\ [][DriverNext]_vars

----------------------------------------------------------------------------
(* WaitResponse on its own: any parameters, any bytes already buffered *)

IdleDriver ==
    /\ variant = 1
    /\ device = "noisy"
    /\ slept = 0
    /\ h = Unset /\ t = Unset /\ deg = Unset
    /\ dpc = Idle
    /\ StaticInit
    /\ link = <<>>
    /\ wire = <<>>

WaitInit ==
    /\ pc = "WaitResponse"
    /\ IdleDriver
    /\ IdleCheckSum
    /\ rx \in SeqsUpTo(RxBytes, RxCap)
    /\ wpc = "entry"
    /\ minWaitTime \in 0..MaxMinWait
    /\ maxWaitTime \in 0..MaxMaxWait
    /\ ret = 0 /\ timer = 0 /\ elapsed = 0 /\ sawByte = FALSE

WaitNext == WaitResponseDelay \/ WaitResponsePoll

WaitSpec == WaitInit /\ [][WaitNext]_vars

\* The sketch is the only thread: while WaitResponse can take a step, it does.
WaitLiveSpec == WaitSpec /\ WF_vars(WaitNext)

----------------------------------------------------------------------------
(* CheckSum on its own: any buffer, any count within it *)

CheckSumCall ==
    /\ pc = "CheckSum"
    /\ csOut = <<>>
    /\ csOut' = <<CheckSum(csData, csCount, csSigned)>>
    /\ UNCHANGED <<csData, csCount, csSigned, literal>>
    /\ UNCHANGED <<progVars, drvVars, waitVars, rx, wire>>

CheckSumInit ==
    /\ pc = "CheckSum"
    /\ IdleDriver
    /\ rx = <<>>
    /\ WaitIdle
    /\ csData \in SeqsUpTo(CsBytes, MaxLen)
    /\ csCount \in 0..Len(csData)
    /\ csSigned \in BOOLEAN
    /\ csOut = <<>>
    /\ literal = 0

CheckSumNext == CheckSumCall

CheckSumSpec == CheckSumInit /\ [][CheckSumNext]_vars

----------------------------------------------------------------------------
(* The digits on their own: one value, written as a decimal, patched into *)
(* the pristine templates                                                  *)

\* The least s with n * 2^s >= d * 2^23.
RECURSIVE NormShift(_, _, _)
NormShift(n, d, s) ==
    IF n * Pow2(s) >= d * Pow2(23) THEN s ELSE NormShift(n, d, s + 1)

\* The float a decimal n/d (0 <= n/d < 2^24) is held as: the binary32 value
\* nearest to it, ties to even.
FloatOfDecimal(n, d) ==
    IF n = 0 THEN Float(FALSE, 0, 0)
    ELSE LET s  == NormShift(n, d, 0)
             p  == n * Pow2(s)
             q  == p \div d
             r  == p % d
             up == 2 * r > d \/ (2 * r = d /\ q % 2 = 1)
             q1 == IF up THEN q + 1 ELSE q
         IN  IF q1 = Pow2(24) THEN Float(FALSE, Pow2(23), 1 - s)
             ELSE Float(FALSE, q1, -s)

\* The values formatted, in hundredths: every multiple of a tenth from 0.0
\* to MaxTenths / 10, and 7.83 and 23.05.
FormatLiterals == {10 * k : k \in 0..MaxTenths} \cup {783, 2305}

\* Lines 114-120 and 132-138 on the buffers as initialised.
FormatTemperature ==
    /\ pc = "format"
    /\ \E sgn \in BOOLEAN :
          /\ showTempXXX' = PatchTemperature(showTempXXX, deg, sgn)
          /\ updTempXXX' = IF variant = 1
                           THEN PatchTemperature(updTempXXX, deg, sgn)
                           ELSE updTempXXX
    /\ pc' = "PatchTemperature"
    /\ UNCHANGED <<variant, device, slept, h, t, dpc, deg, showHumXXX,
                   updHumXXX, link, rx, wire, waitVars, csVars>>

\* Lines 159-164 and 176-181 on the buffers as initialised.
FormatHumidity ==
    /\ pc = "format"
    /\ \E sgn \in BOOLEAN :
          /\ showHumXXX' = PatchHumidity(showHumXXX, deg, sgn)
          /\ updHumXXX' = IF variant = 1
                          THEN PatchHumidity(updHumXXX, deg, sgn)
                          ELSE updHumXXX
    /\ pc' = "PatchHumidity"
    /\ UNCHANGED <<variant, device, slept, h, t, dpc, deg, showTempXXX,
                   updTempXXX, link, rx, wire, waitVars, csVars>>

FormatInit ==
    /\ variant \in {1, 2}
    /\ device = "prompt"
    /\ pc = "format"
    /\ slept = 0
    /\ h = Unset /\ t = Unset
    /\ literal \in FormatLiterals
    /\ deg = FloatOfDecimal(literal, 100)
    /\ dpc = Idle
    /\ StaticInit
    /\ link = <<>>
    /\ rx = <<>> /\ wire = <<>>
    /\ WaitIdle
    /\ csData = <<>> /\ csCount = 0 /\ csSigned = FALSE /\ csOut = <<>>

FormatNext == FormatTemperature \/ FormatHumidity

FormatSpec == FormatInit /\ [][FormatNext]_vars

----------------------------------------------------------------------------
(* Properties *)

\* WaitResponse has returned; ret is the value returned.
Returned == wpc = "done"

\* C1: a byte read during the poll phase that is neither ACK nor NAK is
\* discarded and polling continues (the read does not end the call).
C1_NoiseDiscarded ==
    [][(wpc = "loop" /\ rx # <<>> /\ ~IsResponse(Head(rx))) => wpc' = "loop"]_vars

\* C2: whatever the parameters and the bytes delivered, WaitResponse returns
\* ACK, NAK or TIMEOUT and no other value.
C2_ReturnsCode == Returned => ret \in {ACK, NAK, TIMEOUT}

\* C3: with maxWaitTime > 0 and no byte ever available, WaitResponse returns
\* TIMEOUT when timer has reached maxWaitTime, after exactly maxWaitTime
\* one-unit delays of polling, and not before.
C3_TimeoutAfterMax ==
    (Returned /\ maxWaitTime > 0 /\ ~sawByte) =>
        /\ ret = TIMEOUT
        /\ timer = maxWaitTime
        /\ elapsed = minWaitTime + maxWaitTime

C3_Witness ==
    Returned /\ ~sawByte /\ maxWaitTime > 1 /\ minWaitTime > 0 /\ ret = TIMEOUT

\* C4: with maxWaitTime > 0 WaitResponse always returns, and when it returns
\* it has blocked for at least minWaitTime and at most
\* minWaitTime + maxWaitTime time units, whatever the link delivers.
C4_BoundedBlocking ==
    /\ []((Returned /\ maxWaitTime > 0) =>
            (minWaitTime <= elapsed /\ elapsed <= minWaitTime + maxWaitTime))
    /\ ((maxWaitTime > 0 /\ ~Returned) ~> Returned)

C4_Witness ==
    /\ Returned /\ maxWaitTime > 1 /\ sawByte /\ ret = TIMEOUT
    /\ elapsed = minWaitTime + maxWaitTime

\* C5: the whole minWaitTime delay comes before the first poll: the delay
\* step reads nothing and leaves the bytes already buffered in place, and
\* every test of availability or read happens with elapsed >= minWaitTime;
\* the buffered byte is what the first poll reads.
C5_DelayBeforePoll ==
    [][ /\ (wpc = "entry" =>
              /\ elapsed' = elapsed + minWaitTime
              /\ ret' = ret /\ timer' = timer /\ sawByte' = sawByte
              /\ Len(rx') >= Len(rx) /\ SubSeq(rx', 1, Len(rx)) = rx)
        /\ (wpc = "loop" => elapsed >= minWaitTime)
        /\ ((wpc = "loop" /\ rx # <<>>) => ret' = Head(rx)) ]_vars

C5_Witness ==
    /\ Returned /\ ret = ACK /\ minWaitTime > 0
    /\ elapsed = minWaitTime /\ timer = 0

\* C6: the iteration that reads ACK or NAK ends the call with that byte as
\* the result, reads nothing more and delays no more; bytes behind it stay
\* in the receive buffer.
C6_ResponseEndsCall ==
    [][(wpc = "loop" /\ rx # <<>> /\ IsResponse(Head(rx))) =>
          /\ wpc' = "done"
          /\ ret' = Head(rx)
          /\ rx' = Tail(rx)
          /\ elapsed' = elapsed /\ timer' = timer]_vars

C6_Witness == Returned /\ IsResponse(ret) /\ rx # <<>>

\* C7: with maxWaitTime = 0 WaitResponse never returns TIMEOUT and returns
\* only after reading a byte; while no byte has been available it has not
\* returned.
C7_WaitForever ==
    (maxWaitTime = 0 /\ Returned) => (sawByte /\ ret # TIMEOUT)

C7_Witness == maxWaitTime = 0 /\ Returned /\ timer > 1

RECURSIVE SumBytes(_, _)
SumBytes(data, n) == IF n = 0 THEN 0 ELSE SumBytes(data, n - 1) + data[n]

\* C9: CheckSum(data, count) is the sum of data[0..count) modulo 256, for
\* bytes of either sign and sums that wrap, and no byte at index >= count
\* changes it.
C9_CheckSumIsSumMod256 ==
    csOut # <<>> =>
        /\ csOut[1] = SumBytes(csData, csCount) % 256
        /\ \A i \in (csCount + 1)..Len(csData) : \A b \in CsBytes :
              CheckSum([csData EXCEPT ![i] = b], csCount, csSigned) = csOut[1]

C9_Witness ==
    /\ csOut # <<>> /\ csSigned
    /\ csCount > 1 /\ csCount < Len(csData)
    /\ csData[1] >= 128
    /\ SumBytes(csData, csCount) > 255
    /\ csData[csCount + 1] # 0

\* The frame of a write checks: its byte at offset length-2 is the sum
\* modulo 256 of the bytes before it.
WellFormed(b) == b[Len(b) - 1] = SumBytes(b, Len(b) - 2) % 256

CommandOps ==
    {"ClearTemperature", "ClearHumidity", "ShowTemperature",
     "UpdateTemperature", "ShowHumidity", "UpdateHumidity", "UpdateScreen"}

\* C8: every command frame written to the link (clear, draw in both
\* variants, flip), for every value and after any earlier calls, carries at
\* offset length-2 the sum modulo 256 of its bytes at offsets [0, length-2).
C8_FramesWellFormed ==
    \A i \in 1..Len(link) :
        link[i].op \in CommandOps => WellFormed(link[i].bytes)

C8_Witness ==
    /\ Len(link) = 2
    /\ link[2].op = "UpdateTemperature"
    /\ link[2].bytes[32] # UpdateTemperatureXXX[32]
    /\ updHumXXX # UpdateHumidityXXX
    /\ showTempXXX # ShowTemperatureXXX(variant)

\* C10: when a draw frame of a region is written, the write before it on
\* the link is the clear frame of that same region (same operation family,
\* same coordinates), so nothing is written between the two.
C10_ClearBeforeDraw ==
    LET n == Len(link) IN
    (n >= 1 /\ link[n].op \in {"ShowTemperature", "UpdateTemperature",
                               "ShowHumidity", "UpdateHumidity"}) =>
        /\ n >= 2
        /\ link[n - 1].op =
              (IF link[n].op \in {"ShowTemperature", "UpdateTemperature"}
               THEN "ClearTemperature" ELSE "ClearHumidity")
        /\ link[n - 1].bytes =
              (IF link[n].op \in {"ShowTemperature", "UpdateTemperature"}
               THEN ClearTemperatureXXX(variant) ELSE ClearHumidityXXX(variant))
        /\ link[n - 1].bytes[7] = link[n].bytes[9]
        /\ link[n - 1].bytes[9] = link[n].bytes[11]

C10_Witness ==
    /\ Len(link) = 2
    /\ link[2].op \in {"ShowHumidity", "UpdateHumidity"}
    /\ link[1].op = "ClearHumidity"
    /\ wpc = "done" /\ ret = NAK

\* A call of WaitResponse has been made and has not returned yet.
Waiting == wpc \in {"entry", "loop"}

\* This step writes a command frame to the link.
FrameWrite ==
    /\ link' # link
    /\ link'[Len(link')].op \in CommandOps

\* C11: one command in flight.  A command frame is written only while no
\* WaitResponse is pending, the write is followed at once by the call
\* WaitResponse(100, 500), and that call stops pending only by returning;
\* so between two frame writes a WaitResponse(100, 500) has completed.
C11_OneInFlight ==
    [][/\ FrameWrite =>
            /\ ~Waiting
            /\ wpc' = "entry"
            /\ minWaitTime' = CMD_MIN_WAIT
            /\ maxWaitTime' = CMD_MAX_WAIT
       /\ (Waiting /\ ~Waiting') =>
            /\ wpc' = "done"
            /\ minWaitTime = CMD_MIN_WAIT
            /\ maxWaitTime = CMD_MAX_WAIT
            /\ elapsed' >= CMD_MIN_WAIT
            /\ link' = link]_vars

C11_Witness ==
    /\ Len(link) = 2
    /\ link[1].op = "UpdateHumidity"
    /\ link[2].op = "UpdateScreen"
    /\ wpc = "done" /\ ret = TIMEOUT

\* C12: a cycle whose humidity or temperature reading is not a number is
\* skipped: the step taken after such readings writes no command frame,
\* calls no display operation and no WaitResponse, and returns to the top
\* of loop(); from the top of loop() the next step is the delay of
\* MIN_READ_PERIOD (2000) followed by new readings.
C12_NaNCycleSkipped ==
    [][/\ (pc = "check" /\ (isnan(h) \/ isnan(t))) =>
            /\ ~FrameWrite
            /\ wpc = "idle" /\ UNCHANGED waitVars
            /\ dpc = Idle /\ dpc' = Idle
            /\ pc' = "loop"
       /\ pc = "loop" =>
            /\ pc' = "check"
            /\ slept' = MIN_READ_PERIOD
            /\ link' = link
            /\ UNCHANGED waitVars]_vars

C12_Witness ==
    /\ pc = "check" /\ slept = MIN_READ_PERIOD
    /\ ~isnan(h) /\ isnan(t)
    /\ Len(link) = 2
    /\ link[1].op \in {"UpdateScreen", "ShowHumidity"}
    /\ link[2].op = "println"

\* The draw operations loop() of sketch v calls.
TemperatureDrawOp(v) == IF v = 1 THEN "UpdateTemperature" ELSE "ShowTemperature"
HumidityDrawOp(v) == IF v = 1 THEN "UpdateHumidity" ELSE "ShowHumidity"

\* The writes after which loop() may write the frame op: the frame before it
\* in the cycle and, for the first frame of a cycle, the end of the cycle
\* before, the message of a skipped cycle, or nothing at all.
ComesAfter(op, v) ==
    IF op = "ClearTemperature"
    THEN {"none", "println",
          IF v = 1 THEN "UpdateScreen" ELSE HumidityDrawOp(v)}
    ELSE IF op = TemperatureDrawOp(v) THEN {"ClearTemperature"}
    ELSE IF op = "ClearHumidity" THEN {TemperatureDrawOp(v)}
    ELSE IF op = HumidityDrawOp(v) THEN {"ClearHumidity"}
    ELSE IF op = "UpdateScreen" /\ v = 1 THEN {HumidityDrawOp(v)}
    ELSE {}

\* C13: no retransmission, and the answers do not change what is sent.
\* Every step that writes a command frame, whatever the WaitResponse before
\* it returned (ACK, NAK, TIMEOUT or a stray byte), writes the frame that
\* follows the last write in the fixed sequence clear-temperature,
\* draw-temperature, clear-humidity, draw-humidity, flip (sketch 1 only);
\* a frame is never followed by itself.
C13_FixedSequence ==
    [][FrameWrite =>
          LET n    == Len(link')
              prev == IF link = <<>> THEN "none" ELSE link[Len(link)].op
          IN  /\ prev \in ComesAfter(link'[n].op, variant)
              /\ prev # link'[n].op]_vars

C13_Witness ==
    /\ Len(link) = 2
    /\ link[1].op = "ClearHumidity"
    /\ link[2].op = HumidityDrawOp(variant)
    /\ dpc.at = "draw"
    /\ wpc = "done" /\ ret = NAK

\* a is an initial part of b.
IsPrefix(a, b) == Len(a) <= Len(b) /\ SubSeq(b, 1, Len(a)) = a

\* setup() has returned.
Started == pc \notin {"setup", "ClearResponse"}

\* C14: the display driver is the single owner of the link.  Every write
\* to the link is a complete command frame written by a display operation
\* in progress, and once setup() has returned a byte leaves the receive
\* buffer only by being read inside WaitResponse; loop() itself neither
\* writes nor reads.
C14_SingleOwner ==
    [][/\ link' # link =>
            /\ link'[Len(link')].op \in CommandOps
            /\ dpc' # Idle
       /\ (Started /\ ~IsPrefix(rx, rx')) => wpc = "loop"]_vars

\* C15: the startup flush.  Until setup() has returned nothing is written
\* to the link; after the settling delay ClearResponse takes the buffered
\* bytes out of the receive buffer one by one, oldest first, and returns
\* only when none is left, so the buffer is empty when it returns and every
\* byte buffered by then has been read before the first frame is written.
C15_StartupFlush ==
    /\ [](~Started => link = <<>>)
    /\ [][pc = "ClearResponse" =>
            /\ link' = <<>>
            /\ IF rx # <<>>
               THEN rx' = Tail(rx) /\ pc' = "ClearResponse"
               ELSE rx' = <<>> /\ pc' = "loop"]_vars

C15_Witness ==
    /\ pc = "ClearResponse"
    /\ Len(rx) = 2
    /\ rx[1] = ACK
    /\ rx[2] = 65
    /\ link = <<>>

\* ASCII code of the decimal digit n, and of the blank.
Digit(n) == 48 + n
Blank == 32

\* The digit bytes of a temperature frame (offsets 23, 24, 26) and of a
\* humidity frame (offsets 22, 23).
TempDigits(XXX) == <<XXX[24], XXX[25], XXX[27]>>
HumDigits(XXX) == <<XXX[23], XXX[24]>>

\* The digits of the frames of this sketch after the patch.
TempFramesShow(ds) ==
    /\ pc = "PatchTemperature"
    /\ TempDigits(showTempXXX) = ds
    /\ variant = 1 => TempDigits(updTempXXX) = ds

HumFramesShow(ds) ==
    /\ pc = "PatchHumidity"
    /\ HumDigits(showHumXXX) = ds
    /\ variant = 1 => HumDigits(updHumXXX) = ds

\* C16 as stated: for temperature 7.83 the frame carries tens ' ', ones
\* '7', tenths '3'; for 23.05 it carries '2', '3', '0'; for humidity 45.0 it
\* carries '4', '5'; for 5.0 it carries ' ', '5'.
C16_DigitsAsStated ==
    /\ (pc = "PatchTemperature" /\ literal = 783) =>
            TempFramesShow(<<Blank, Digit(7), Digit(3)>>)
    /\ (pc = "PatchTemperature" /\ literal = 2305) =>
            TempFramesShow(<<Digit(2), Digit(3), Digit(0)>>)
    /\ (pc = "PatchHumidity" /\ literal = 4500) =>
            HumFramesShow(<<Digit(4), Digit(5)>>)
    /\ (pc = "PatchHumidity" /\ literal = 500) =>
            HumFramesShow(<<Blank, Digit(5)>>)

\* C16, amended: for temperature 7.83 the frame carries tens ' ', ones '7',
\* tenths '8' (the tenths digit of 7.83 is 8; 3 is its hundredths digit,
\* which is not rendered); for 23.05 it carries '2', '3', '0'; for humidity
\* 45.0 it carries '4', '5'; for 5.0 it carries ' ', '5'.
C16_Digits ==
    /\ (pc = "PatchTemperature" /\ literal = 783) =>
            TempFramesShow(<<Blank, Digit(7), Digit(8)>>)
    /\ (pc = "PatchTemperature" /\ literal = 2305) =>
            TempFramesShow(<<Digit(2), Digit(3), Digit(0)>>)
    /\ (pc = "PatchHumidity" /\ literal = 4500) =>
            HumFramesShow(<<Digit(4), Digit(5)>>)
    /\ (pc = "PatchHumidity" /\ literal = 500) =>
            HumFramesShow(<<Blank, Digit(5)>>)

C16_Witness ==
    /\ pc = "PatchTemperature"
    /\ literal = 783
    /\ variant = 1
    /\ TempDigits(updTempXXX) = <<Blank, Digit(7), Digit(8)>>

\* The tens byte of a value of k tenths: blank below 10, else the digit.
TensByte(k) == IF k \div 10 < 10 THEN Blank ELSE Digit((k \div 100) % 10)

\* C17: for every value of k tenths with 0 <= k <= 999 (0.0 to 99.9), the
\* ones byte is the digit of floor(value) mod 10 and the temperature tenths
\* byte is the digit of floor(value * 10) mod 10, both rendered even when
\* zero; the tens byte is a blank exactly when floor(value) < 10 and else
\* the digit '1'..'9' of floor(value) div 10.  The humidity frame follows
\* the same rule for tens and ones and has no tenths digit.
C17_DigitRule ==
    LET k == literal \div 10 IN
    (literal % 10 = 0 /\ k <= 999) =>
        /\ pc = "PatchTemperature" =>
              /\ TempFramesShow(<<TensByte(k), Digit((k \div 10) % 10),
                                  Digit(k % 10)>>)
              /\ (showTempXXX[24] = Blank) <=> (k \div 10 < 10)
              /\ showTempXXX[24] # Blank =>
                    showTempXXX[24] \in Digit(1)..Digit(9)
        /\ pc = "PatchHumidity" =>
              /\ HumFramesShow(<<TensByte(k), Digit((k \div 10) % 10)>>)
              /\ (showHumXXX[23] = Blank) <=> (k \div 10 < 10)
              /\ showHumXXX[23] # Blank =>
                    showHumXXX[23] \in Digit(1)..Digit(9)

C17_Witness ==
    /\ pc = "PatchTemperature"
    /\ literal = 9990
    /\ TempDigits(showTempXXX) = <<Digit(9), Digit(9), Digit(9)>>

\* The draw frame the operation op of sketch v writes for the value d when
\* its static buffer is as initialised.
FirstDrawFrames(op, v, d) ==
    IF op = "ShowTemperature"
    THEN {PatchTemperature(ShowTemperatureXXX(v), d, sgn) : sgn \in BOOLEAN}
    ELSE IF op = "UpdateTemperature"
    THEN {PatchTemperature(UpdateTemperatureXXX, d, sgn) : sgn \in BOOLEAN}
    ELSE IF op = "ShowHumidity"
    THEN {PatchHumidity(ShowHumidityXXX(v), d, sgn) : sgn \in BOOLEAN}
    ELSE {PatchHumidity(UpdateHumidityXXX, d, sgn) : sgn \in BOOLEAN}

\* C18: the frames of a temperature or humidity operation depend on its
\* argument only.  Whatever calls were made before, the clear frame written
\* is the fixed clear frame of the region and the draw frame written for
\* the value deg is the frame the first call of the program would write for
\* deg; so two calls with the same value write byte-identical pairs.
C18_FramesDependOnArgumentOnly ==
    LET n == Len(link) IN
    (dpc.at = "draw" /\ dpc.op # "UpdateScreen") =>
        /\ n = 2
        /\ link[2].op = dpc.op
        /\ link[2].bytes \in FirstDrawFrames(dpc.op, variant, deg)
        /\ link[1].bytes =
              (IF dpc.op \in {"ShowTemperature", "UpdateTemperature"}
               THEN ClearTemperatureXXX(variant) ELSE ClearHumidityXXX(variant))

C18_Witness ==
    /\ dpc = [op |-> "UpdateTemperature", at |-> "draw"]
    /\ deg = F7_83
    /\ TempDigits(link[2].bytes) = <<Blank, Digit(7), Digit(8)>>
    /\ TempDigits(showTempXXX) = <<Digit(2), Digit(3), Digit(0)>>
    /\ updHumXXX # UpdateHumidityXXX
    /\ showHumXXX # ShowHumidityXXX(variant)

\* The positions at which two frames of one length differ.
DiffAt(a, b) == {i \in 1..Len(a) : a[i] # b[i]}

\* Two frames that differ in the opcode (offset 5: 0x13 for draw-and-show,
\* 0x10 for draw-to-backbuffer) and in the checksum (offset length-2) only.
SameButOpcode(show, upd) ==
    /\ Len(show) = Len(upd)
    /\ DiffAt(show, upd) = {6, Len(show) - 1}
    /\ show[6] = 19
    /\ upd[6] = 16

\* C19: in sketch 1, for every value, the frame of ShowTemperature and the
\* frame of UpdateTemperature have the same length and differ in exactly
\* two positions, the opcode at offset 5 (0x13 versus 0x10) and the
\* checksum at offset length-2; the same holds of the frames of
\* ShowHumidity and UpdateHumidity.
C19_ShowAndUpdateDifferInOpcode ==
    variant = 1 =>
        /\ SameButOpcode(showTempXXX, updTempXXX)
        /\ SameButOpcode(showHumXXX, updHumXXX)

C19_Witness ==
    /\ variant = 1
    /\ pc = "PatchHumidity"
    /\ literal = 9990
    /\ HumDigits(showHumXXX) = <<Digit(9), Digit(9)>>
    /\ HumDigits(updHumXXX) = <<Digit(9), Digit(9)>>
    /\ showHumXXX[29] # updHumXXX[29]

\* The byte at the head of the receive buffer is the responder's answer to
\* the frame written last: answers travel in the order of their frames, so
\* it is if no other answer is behind it, in the buffer or still owed.
HeadAnswersLastFrame == Len(rx) = 1 /\ wire = <<>>

\* C20: against the responder, the byte a WaitResponse reads and returns
\* is the answer to the frame written just before that WaitResponse was
\* called, never the late answer to an earlier frame.
C20_AnswerToSameFrame ==
    [][(device = "responder" /\ wpc = "loop" /\ rx # <<>> /\ wpc' = "done")
          => HeadAnswersLastFrame]_vars

====
